---- MODULE Spec2Model ----
(***************************************************************************)
(* Model of the flowing processing graph (src/src/graph.rs) together with  *)
(* the three node kinds of src/src/nodes: Variable, Addition and Delay.    *)
(* f64 values are modelled by small naturals (exact for the sums used).    *)
(* The iteration order of a std HashMap is unspecified (RandomState), so   *)
(* every traversal of the in-degree map is a free choice of a permutation  *)
(* of its keys.                                                            *)
(***************************************************************************)
EXTENDS Integers, Sequences, FiniteSets, TLC

\* ---------------------------------------------------------------- bounds
\* Number of node ids add_node may hand out (next_node_id stops here).
MaxNodeId == 3
\* Largest value a node input or output may hold (process() stops there).
MaxValue == 4
\* Largest value a test driver sets on an input.
MaxInput == 2
\* Largest port id tried in connections (Addition declares inputs 0 and 1).
MaxPortId == 1
\* Number of connections a caller of Spec stores before it stops adding.
MaxConnections == 3
\* Number of process() calls the test drivers of TestSpec perform.
MaxCycles == 4
\* Number of set_input calls and of mutations after the build phase that a
\* caller of EditSpec makes.
MaxEdits == 1

NodeIds == 0..(MaxNodeId - 1)
PortIds == 0..MaxPortId
Values == 0..MaxValue

VARIABLES
    nodes,              \* Graph::nodes: NodeId -> node
    connections,        \* Graph::connections: Vec<Connection>
    next_node_id,       \* Graph::next_node_id
    processing_order,   \* Graph::processing_order
    result,             \* the last call: operation, argument and what it returned
    pc                  \* the caller: which test drives the graph, and its next step

graph == <<nodes, connections, next_node_id, processing_order>>
vars == <<nodes, connections, next_node_id, processing_order, result, pc>>

\* ------------------------------------------------------- sequence helpers
Range(s) == {s[i] : i \in 1..Len(s)}

\* All orders in which a HashMap with key set S may be iterated.
Perms(S) == {s \in [1..Cardinality(S) -> S] : \A e \in S : \E i \in 1..Cardinality(S) : s[i] = e}

\* ------------------------------------------------------------ node kinds
VariableNew(v) == [kind |-> "Variable", value |-> v]

AdditionNew == [kind |-> "Addition", summands |-> <<0, 0>>, sum |-> 0]

DelayNew == [kind |-> "Delay", value |-> <<0, 0>>]

delayed_processing(n) == n.kind = "Delay"

list_inputs(n) == IF n.kind = "Addition" THEN {0, 1} ELSE {0}

list_outputs(n) == {0}

get_output(n, id) ==
    CASE n.kind = "Variable" -> n.value
      [] n.kind = "Addition" -> n.sum
      [] n.kind = "Delay" -> n.value[2]

\* The value last stored by set_input(id, _).
InputValue(n, id) ==
    CASE n.kind = "Variable" -> n.value
      [] n.kind = "Addition" -> n.summands[id + 1]
      [] n.kind = "Delay" -> n.value[1]

set_input(n, id, v) ==
    CASE n.kind = "Variable" -> [n EXCEPT !.value = v]
      [] n.kind = "Addition" -> [n EXCEPT !.summands[id + 1] = v]
      [] n.kind = "Delay" -> [n EXCEPT !.value[1] = v]

AdditionProcessFirstSummand(n) == [n EXCEPT !.sum = n.summands[1]]

AdditionProcess(n) == [n EXCEPT !.sum = n.summands[1] + n.summands[2]]

DelayProcess(n) == [n EXCEPT !.value[2] = n.value[1]]

process(n) ==
    CASE n.kind = "Variable" -> n
      [] n.kind = "Addition" -> AdditionProcess(n)
      [] n.kind = "Delay" -> DelayProcess(n)

\* ------------------------------------------------------------ connection
ConnectionNew(source_node, source_output, target_node, target_input) ==
    [source_node |-> source_node, source_output |-> source_output,
     target_input |-> target_input, target_node |-> target_node]

Connections ==
    {ConnectionNew(sn, so, tn, ti) : sn \in NodeIds, so \in PortIds, tn \in NodeIds, ti \in PortIds}

\* ----------------------------------------------------------------- errors
Ok(v) == [tag |-> "Ok", val |-> v]

Err(e) == [tag |-> "Err", val |-> e]

NodeNotExists(id) == [error |-> "NodeNotExists", args |-> <<id>>]

OutputNotExists(id, output) == [error |-> "OutputNotExists", args |-> <<id, output>>]

InputNotExists(id, input) == [error |-> "InputNotExists", args |-> <<id, input>>]

InputAlreadyConnected(id, input) == [error |-> "InputAlreadyConnected", args |-> <<id, input>>]

ConnectionNotExists(c) == [error |-> "ConnectionNotExists", args |-> <<c>>]

CycleWithoutDelay == [error |-> "CycleWithoutDelay", args |-> <<>>]

\* ------------------------------------------------- Graph::get_node et al.
get_node(ns, id) == IF id \in DOMAIN ns THEN Ok(ns[id]) ELSE Err(NodeNotExists(id))

ValidateTargetFirst(ns, c) ==
    IF c.target_node \notin DOMAIN ns THEN Err(NodeNotExists(c.target_node))
    ELSE IF c.source_node \notin DOMAIN ns THEN Err(NodeNotExists(c.source_node))
    ELSE IF c.target_input \notin list_inputs(ns[c.target_node])
        THEN Err(InputNotExists(c.target_node, c.target_input))
    ELSE IF c.source_output \notin list_outputs(ns[c.source_node])
        THEN Err(OutputNotExists(c.source_node, c.source_output))
    ELSE Ok(c)

validate_connection(ns, c) ==
    IF c.source_node \notin DOMAIN ns THEN Err(NodeNotExists(c.source_node))
    ELSE IF c.target_node \notin DOMAIN ns THEN Err(NodeNotExists(c.target_node))
    ELSE IF c.source_output \notin list_outputs(ns[c.source_node])
        THEN Err(OutputNotExists(c.source_node, c.source_output))
    ELSE IF c.target_input \notin list_inputs(ns[c.target_node])
        THEN Err(InputNotExists(c.target_node, c.target_input))
    ELSE Ok(c)

Panic == [tag |-> "Panic", val |-> <<>>]

\* -------------------------------------------- Graph::calc_processing_order
\* Line 78: nodes do not depend on nodes that introduce delay.
DependsAlways(ns, c) == TRUE

Depends(ns, c) == ~delayed_processing(ns[c.source_node])

\* Lines 76-81: one increment per connection whose source is non-delaying.
RECURSIVE CountInDegree(_, _, _, _)
CountInDegree(ns, conns, i, deg) ==
    IF i > Len(conns) THEN [in_degree |-> deg, panic |-> FALSE]
    ELSE LET c == conns[i] IN
         IF c.source_node \notin DOMAIN ns THEN [in_degree |-> deg, panic |-> TRUE]
         ELSE IF Depends(ns, c) /\ c.target_node \in DOMAIN deg
             THEN CountInDegree(ns, conns, i + 1, [deg EXCEPT ![c.target_node] = @ + 1])
         ELSE CountInDegree(ns, conns, i + 1, deg)

InDegreeUncounted(ns, conns) == [in_degree |-> [n \in DOMAIN ns |-> 0], panic |-> FALSE]

\* Lines 72-81: the in-degree map (panic: a connection names a missing source).
InDegree(ns, conns) == CountInDegree(ns, conns, 1, [n \in DOMAIN ns |-> 0])

\* Lines 84-89: the queue of zero in-degree nodes. in_degree.iter() visits the
\* keys in an unspecified order, so the queue may hold them in any order.
ReadyQueues(ns, conns) ==
    LET deg == InDegree(ns, conns).in_degree IN Perms({n \in DOMAIN deg : deg[n] = 0})

\* Lines 98-105: the dequeued node releases the targets of its connections.
\* A decrement of a zero counter overflows usize (a panic with overflow
\* checks on); it is recorded in underflow and ends the computation.
RECURSIVE ReduceInDegree(_, _, _, _)
ReduceInDegree(conns, i, node, st) ==
    IF i > Len(conns) \/ st.panic THEN st
    ELSE LET c == conns[i] IN
         IF c.source_node # node THEN ReduceInDegree(conns, i + 1, node, st)
         ELSE IF c.target_node \notin DOMAIN st.in_degree THEN [st EXCEPT !.panic = TRUE]
         ELSE IF st.in_degree[c.target_node] = 0 THEN [st EXCEPT !.panic = TRUE, !.underflow = TRUE]
         ELSE LET deg == [st.in_degree EXCEPT ![c.target_node] = @ - 1] IN
              ReduceInDegree(conns, i + 1, node,
                  [st EXCEPT !.in_degree = deg,
                             !.queue = IF deg[c.target_node] = 0 THEN Append(@, c.target_node) ELSE @])

RECURSIVE TopologicalSortDelayedInPlace(_, _, _)
TopologicalSortDelayedInPlace(ns, conns, st) ==
    IF st.queue = <<>> \/ st.panic THEN st
    ELSE LET node == Head(st.queue)
             popped == [st EXCEPT !.queue = Tail(@), !.pops = @ + 1] IN
         IF node \notin DOMAIN ns THEN [popped EXCEPT !.panic = TRUE]
         ELSE IF ~delayed_processing(ns[node])
             THEN LET reduced == ReduceInDegree(conns, 1, node, popped) IN
                  TopologicalSortDelayedInPlace(ns, conns, [reduced EXCEPT !.order = Append(@, node)])
         ELSE TopologicalSortDelayedInPlace(ns, conns, [popped EXCEPT !.order = Append(@, node)])

\* Lines 94-110: the sort loop; delaying nodes are set aside as they are dequeued.
RECURSIVE TopologicalSort(_, _, _)
TopologicalSort(ns, conns, st) ==
    IF st.queue = <<>> \/ st.panic THEN st
    ELSE LET node == Head(st.queue)
             popped == [st EXCEPT !.queue = Tail(@), !.pops = @ + 1] IN
         IF node \notin DOMAIN ns THEN [popped EXCEPT !.panic = TRUE]
         ELSE IF ~delayed_processing(ns[node])
             THEN LET reduced == ReduceInDegree(conns, 1, node, popped) IN
                  TopologicalSort(ns, conns, [reduced EXCEPT !.order = Append(@, node)])
         ELSE TopologicalSort(ns, conns, [popped EXCEPT !.delayed = Append(@, node)])

\* The state of the sort when its loop ends (ready: the initial queue).
SortState(ns, conns, ready) ==
    LET counted == InDegree(ns, conns) IN
    TopologicalSort(ns, conns,
        [in_degree |-> counted.in_degree, queue |-> ready,
         order |-> <<>>, delayed |-> <<>>, pops |-> 0,
         panic |-> counted.panic, underflow |-> FALSE])

AppendDelayedFirst(order, delayed) == delayed \o order

\* Lines 112-115: the delaying nodes are appended after all other nodes.
AppendDelayed(order, delayed) == order \o delayed

OrderCompleteUnchecked(order, ns) == TRUE

\* Lines 117-120: an undelayed cycle leaves nodes out of the order.
OrderComplete(order, ns) == Len(order) = Cardinality(DOMAIN ns)

calc_processing_order(ns, conns, ready) ==
    LET st == SortState(ns, conns, ready)
        order == AppendDelayed(st.order, st.delayed) IN
    IF st.panic THEN Panic
    ELSE IF ~OrderComplete(order, ns) THEN Err(CycleWithoutDelay)
    ELSE Ok(order)

\* ---------------------------------------------------------- Graph::process
RECURSIVE PopulateInputsClearing(_, _, _, _)
PopulateInputsClearing(ns, conns, i, node) ==
    IF i > Len(conns) THEN ns
    ELSE LET c == conns[i]
             cleared == IF i = 1 THEN [ns EXCEPT ![node] = set_input(set_input(@, 0, 0), 1, 0)]
                        ELSE ns IN
         IF c.target_node = node
         THEN LET value == get_output(cleared[c.source_node], c.source_output) IN
              PopulateInputsClearing([cleared EXCEPT ![c.target_node] = set_input(@, c.target_input, value)],
                                     conns, i + 1, node)
         ELSE PopulateInputsClearing(cleared, conns, i + 1, node)

\* Lines 149-154: copy the source output of every connection into node.
RECURSIVE PopulateInputs(_, _, _, _)
PopulateInputs(ns, conns, i, node) ==
    IF i > Len(conns) THEN ns
    ELSE LET c == conns[i] IN
         IF c.target_node = node
         THEN LET value == get_output(ns[c.source_node], c.source_output) IN
              PopulateInputs([ns EXCEPT ![c.target_node] = set_input(@, c.target_input, value)],
                             conns, i + 1, node)
         ELSE PopulateInputs(ns, conns, i + 1, node)

RECURSIVE ProcessNodesBackwards(_, _, _, _)
ProcessNodesBackwards(ns, conns, order, i) ==
    IF i > Len(order) THEN ns
    ELSE LET node == order[Len(order) + 1 - i]
             populated == PopulateInputs(ns, conns, 1, node) IN
         ProcessNodesBackwards([populated EXCEPT ![node] = process(@)], conns, order, i + 1)

RECURSIVE ProcessBeforePopulate(_, _, _, _)
ProcessBeforePopulate(ns, conns, order, i) ==
    IF i > Len(order) THEN ns
    ELSE LET node == order[i]
             processed == [ns EXCEPT ![node] = process(@)] IN
         ProcessBeforePopulate(PopulateInputs(processed, conns, 1, node), conns, order, i + 1)

\* Lines 147-158: one pass over the cached order starting at position i.
RECURSIVE ProcessNodes(_, _, _, _)
ProcessNodes(ns, conns, order, i) ==
    IF i > Len(order) THEN ns
    ELSE LET node == order[i]
             populated == PopulateInputs(ns, conns, 1, node) IN
         ProcessNodes([populated EXCEPT ![node] = process(@)], conns, order, i + 1)

\* Lines 149-154: the set_input calls that populate node, one per connection
\* into it, in the order of the connection list.
RECURSIVE PopulateCalls(_, _, _)
PopulateCalls(conns, i, node) ==
    IF i > Len(conns) THEN <<>>
    ELSE IF conns[i].target_node = node
        THEN <<[call |-> "set_input", node |-> node, connection |-> i]>> \o PopulateCalls(conns, i + 1, node)
    ELSE PopulateCalls(conns, i + 1, node)

\* Lines 147-158: the calls on nodes that one pass makes from position i on.
RECURSIVE ProcessCalls(_, _, _)
ProcessCalls(conns, order, i) ==
    IF i > Len(order) THEN <<>>
    ELSE PopulateCalls(conns, 1, order[i])
             \o <<[call |-> "process", node |-> order[i], connection |-> 0]>>
             \o ProcessCalls(conns, order, i + 1)

NodeValues(n) ==
    CASE n.kind = "Variable" -> {n.value}
      [] n.kind = "Addition" -> {n.summands[1], n.summands[2], n.sum}
      [] n.kind = "Delay" -> {n.value[1], n.value[2]}

InRange(ns) == \A id \in DOMAIN ns : NodeValues(ns[id]) \subseteq Values

\* ------------------------------------------------------------------- Init
EmptyMap == [id \in {} |-> 0]

Returned(op, arg, tag, val) == [op |-> op, arg |-> arg, tag |-> tag, val |-> val]

\* Graph::new
GraphNew ==
    /\ connections = <<>>
    /\ next_node_id = 0
    /\ nodes = EmptyMap
    /\ processing_order = <<>>
    /\ result = Returned("new", <<>>, "Ok", <<>>)

\* The caller of Spec follows no script.
AnyCaller == [test |-> "none", step |-> 0, v |-> 0]

Init == GraphNew /\ pc = AnyCaller

\* ------------------------------------------------------------- operations
InputTakenByLast(conns, c) ==
    /\ conns # <<>>
    /\ conns[Len(conns)].target_node = c.target_node
    /\ conns[Len(conns)].target_input = c.target_input

InputTakenBySameConnection(conns, c) == \E i \in 1..Len(conns) : conns[i] = c

\* Lines 36-40: some stored connection ends in the same input.
InputTaken(conns, c) ==
    \E i \in 1..Len(conns) :
        conns[i].target_node = c.target_node /\ conns[i].target_input = c.target_input

PopNothing(s) == s

\* Line 50: Vec::pop.
Pop(s) == SubSeq(s, 1, Len(s) - 1)

add_connection(connection) ==
    LET valid == validate_connection(nodes, connection) IN
    IF valid.tag = "Err"
    THEN /\ result' = Returned("add_connection", connection, "Err", valid.val)
         /\ UNCHANGED graph
    ELSE IF InputTaken(connections, connection)
    THEN /\ result' = Returned("add_connection", connection, "Err",
                               InputAlreadyConnected(connection.target_node, connection.target_input))
         /\ UNCHANGED graph
    ELSE LET pushed == Append(connections, connection) IN
         \E ready \in ReadyQueues(nodes, pushed) :
         LET calc == calc_processing_order(nodes, pushed, ready) IN
         CASE calc.tag = "Err" ->
                  /\ connections' = Pop(pushed)
                  /\ result' = Returned("add_connection", connection, "Err", calc.val)
                  /\ UNCHANGED <<nodes, next_node_id, processing_order>>
           [] calc.tag = "Ok" ->
                  /\ connections' = pushed
                  /\ processing_order' = calc.val
                  /\ result' = Returned("add_connection", connection, "Ok", connection)
                  /\ UNCHANGED <<nodes, next_node_id>>
           [] calc.tag = "Panic" ->
                  /\ connections' = pushed
                  /\ result' = Returned("add_connection", connection, "Panic", <<>>)
                  /\ UNCHANGED <<nodes, next_node_id, processing_order>>

NodeIdKept(id) == id

\* Line 65: self.next_node_id.0 += 1.
NodeIdIncremented(id) == id + 1

\* The unwrap() of line 64 panics after the insert of line 63.
add_node(node) ==
    LET id == next_node_id
        inserted == (id :> node) @@ nodes IN
    \E ready \in ReadyQueues(inserted, connections) :
    LET calc == calc_processing_order(inserted, connections, ready) IN
    IF calc.tag = "Ok"
    THEN /\ nodes' = inserted
         /\ processing_order' = calc.val
         /\ next_node_id' = NodeIdIncremented(id)
         /\ result' = Returned("add_node", node, "Ok", id)
         /\ UNCHANGED connections
    ELSE /\ nodes' = inserted
         /\ result' = Returned("add_node", node, "Panic", <<>>)
         /\ UNCHANGED <<connections, next_node_id, processing_order>>

RetainOtherTargets(conns, connection) ==
    SelectSeq(conns, LAMBDA c : c.target_node # connection.target_node)

\* Line 164: Vec::retain keeps the connections that differ from connection.
retain(conns, connection) == SelectSeq(conns, LAMBDA c : c # connection)

remove_connection(connection) ==
    IF connection \in Range(connections)
    THEN LET retained == retain(connections, connection) IN
         \E ready \in ReadyQueues(nodes, retained) :
         LET calc == calc_processing_order(nodes, retained, ready) IN
         IF calc.tag = "Ok"
         THEN /\ connections' = retained
              /\ processing_order' = calc.val
              /\ result' = Returned("remove_connection", connection, "Ok", connection)
              /\ UNCHANGED <<nodes, next_node_id>>
         ELSE /\ connections' = retained
              /\ result' = Returned("remove_connection", connection, "Panic", <<>>)
              /\ UNCHANGED <<nodes, next_node_id, processing_order>>
    ELSE /\ result' = Returned("remove_connection", connection, "Err", ConnectionNotExists(connection))
         /\ UNCHANGED graph

StillValidSource(ns, conns) == SelectSeq(conns, LAMBDA c : c.source_node \in DOMAIN ns)

\* Line 175: the connections that still validate once the node is gone.
StillValid(ns, conns) == SelectSeq(conns, LAMBDA c : validate_connection(ns, c).tag = "Ok")

remove_node(id) ==
    IF id \notin DOMAIN nodes
    THEN /\ result' = Returned("remove_node", id, "Err", NodeNotExists(id))
         /\ UNCHANGED graph
    ELSE LET node == nodes[id]
             removed == [n \in DOMAIN nodes \ {id} |-> nodes[n]]
             filtered == StillValid(removed, connections) IN
         \E ready \in ReadyQueues(removed, filtered) :
         LET calc == calc_processing_order(removed, filtered, ready) IN
         IF calc.tag = "Ok"
         THEN /\ nodes' = removed
              /\ connections' = filtered
              /\ processing_order' = calc.val
              /\ result' = Returned("remove_node", id, "Ok", node)
              /\ UNCHANGED next_node_id
         ELSE /\ nodes' = removed
              /\ connections' = filtered
              /\ result' = Returned("remove_node", id, "Panic", <<>>)
              /\ UNCHANGED <<next_node_id, processing_order>>

\* graph.get_node_mut(id).unwrap().set_input(input, value), as in src/src/lib.rs:22
node_set_input(id, input, value) ==
    /\ id \in DOMAIN nodes
    /\ input \in list_inputs(nodes[id])
    /\ nodes' = [nodes EXCEPT ![id] = set_input(@, input, value)]
    /\ result' = Returned("set_input", <<id, input, value>>, "Ok", <<>>)
    /\ UNCHANGED <<connections, next_node_id, processing_order>>

graph_process ==
    LET processed == ProcessNodes(nodes, connections, processing_order, 1) IN
    /\ InRange(processed)
    /\ nodes' = processed
    /\ result' = Returned("process", <<>>, "Ok", <<>>)
    /\ UNCHANGED <<connections, next_node_id, processing_order>>

\* Lines 35-57 as a function of the graph: add_connection(c) returns Ok, under
\* every order in which the in-degree map may be iterated.
Accepts(ns, conns, c) ==
    /\ validate_connection(ns, c).tag = "Ok"
    /\ ~InputTaken(conns, c)
    /\ \A ready \in ReadyQueues(ns, Append(conns, c)) :
           calc_processing_order(ns, Append(conns, c), ready).tag = "Ok"

\* add_connection called with seq[i], seq[i + 1], ... in turn on the nodes ns
\* and the stored connections conns, up to the first call that fails.
RECURSIVE AddAll(_, _, _, _)
AddAll(ns, conns, seq, i) ==
    IF i > Len(seq) THEN Ok(conns)
    ELSE IF Accepts(ns, conns, seq[i]) THEN AddAll(ns, Append(conns, seq[i]), seq, i + 1)
    ELSE Err(seq[i])

\* ------------------------------------------ Spec: any caller of the mutators
\* A caller goes on while its calls return Ok (the unwrap() of the tests); the
\* state a failing call leaves behind is a state of the model, the last one
\* of its behaviour.
Calling(test) == pc.test = test /\ result.tag = "Ok"

NewNodes == {VariableNew(1), AdditionNew, DelayNew}

AddNode ==
    /\ Calling("none")
    /\ next_node_id < MaxNodeId
    /\ \E node \in NewNodes : add_node(node)
    /\ UNCHANGED pc

AddConnection ==
    /\ Calling("none")
    /\ Len(connections) < MaxConnections
    /\ \E c \in Connections : add_connection(c)
    /\ UNCHANGED pc

RemoveConnection ==
    /\ Calling("none")
    /\ \E c \in Connections : remove_connection(c)
    /\ UNCHANGED pc

RemoveNode ==
    /\ Calling("none")
    /\ \E id \in NodeIds : remove_node(id)
    /\ UNCHANGED pc

Next == AddNode \/ AddConnection \/ RemoveConnection \/ RemoveNode

Spec == Init /\ [][Next]_vars

\* ------------------------------------------- TestSpec: the process tests
\* tests::multi_delay_processing (src/src/lib.rs) with the value v on del0.
MultiDelayProcessing(v) ==
    <<[op |-> "add_node", arg |-> DelayNew],
      [op |-> "add_node", arg |-> DelayNew],
      [op |-> "add_node", arg |-> DelayNew],
      [op |-> "add_connection", arg |-> ConnectionNew(0, 0, 1, 0)],
      [op |-> "add_connection", arg |-> ConnectionNew(1, 0, 2, 0)],
      [op |-> "set_input", arg |-> <<0, 0, v>>]>>

\* tests::process (src/src/graph.rs): the accumulator with a delayed feedback.
ProcessTest ==
    <<[op |-> "add_node", arg |-> VariableNew(1)],
      [op |-> "add_node", arg |-> AdditionNew],
      [op |-> "add_node", arg |-> DelayNew],
      [op |-> "add_connection", arg |-> ConnectionNew(0, 0, 1, 0)],
      [op |-> "add_connection", arg |-> ConnectionNew(1, 0, 2, 0)],
      [op |-> "add_connection", arg |-> ConnectionNew(2, 0, 1, 1)]>>

Script == IF pc.test = "multi_delay_processing" THEN MultiDelayProcessing(pc.v) ELSE ProcessTest

\* The call the test makes next: its setup, then MaxCycles calls of process().
NextCall ==
    IF pc.step < Len(Script) THEN Script[pc.step + 1]
    ELSE IF pc.step < Len(Script) + MaxCycles THEN [op |-> "process", arg |-> <<>>]
    ELSE [op |-> "done", arg |-> <<>>]

\* Number of process() calls the test has made.
Cycles == IF pc.step <= Len(Script) THEN 0 ELSE pc.step - Len(Script)

Testing(op) ==
    /\ pc.test # "none"
    /\ result.tag = "Ok"
    /\ NextCall.op = op
    /\ pc' = [pc EXCEPT !.step = @ + 1]

TestAddNode == Testing("add_node") /\ add_node(NextCall.arg)

TestAddConnection == Testing("add_connection") /\ add_connection(NextCall.arg)

TestSetInput ==
    Testing("set_input") /\ node_set_input(NextCall.arg[1], NextCall.arg[2], NextCall.arg[3])

TestProcess == Testing("process") /\ graph_process

TestInit ==
    /\ GraphNew
    /\ pc \in {[test |-> "multi_delay_processing", step |-> 0, v |-> v] : v \in 1..MaxInput}
              \cup {[test |-> "process", step |-> 0, v |-> 1]}

TestNext == TestAddNode \/ TestAddConnection \/ TestSetInput \/ TestProcess

TestSpec == TestInit /\ [][TestNext]_vars

\* The ids of the nodes in the graph.
Live == DOMAIN nodes

\* ------------------------------- ProcessSpec: process() on any built graph
\* The caller adds nodes, then connects declared ports through free inputs
\* (an undelayed cycle ends its run), then calls process() up to MaxCycles
\* times; pc.step counts its process() calls.
GraphCaller == [test |-> "graph", step |-> 0, v |-> 0]

ProcessNewNodes == {VariableNew(v) : v \in 1..MaxInput} \cup {AdditionNew, DelayNew}

BuildNode ==
    /\ Calling("graph")
    /\ pc.step = 0 /\ connections = <<>>
    /\ next_node_id < MaxNodeId
    /\ \E node \in ProcessNewNodes : add_node(node)
    /\ UNCHANGED pc

BuildConnection ==
    /\ Calling("graph")
    /\ pc.step = 0
    /\ Len(connections) < MaxConnections
    /\ \E c \in Connections :
           /\ validate_connection(nodes, c).tag = "Ok"
           /\ ~InputTaken(connections, c)
           /\ add_connection(c)
    /\ UNCHANGED pc

Process ==
    /\ Calling("graph")
    /\ pc.step < MaxCycles
    /\ graph_process
    /\ pc' = [pc EXCEPT !.step = @ + 1]

ProcessInit == GraphNew /\ pc = GraphCaller

ProcessNext == BuildNode \/ BuildConnection \/ Process

ProcessSpec == ProcessInit /\ [][ProcessNext]_vars

\* --------------------- EditSpec: inputs set and graphs edited between cycles
\* The caller of ProcessSpec that also, up to MaxEdits times between two of
\* its process() calls, sets an input of a live node, adds a node,
\* connects declared ports of live nodes, or removes a stored connection or a
\* live node; pc.v counts these calls. (Before the first cycle the mutators
\* are the build phase; tests::multi_delay_processing sets its input there.)
Editing ==
    /\ Calling("graph")
    /\ pc.step >= 1 /\ pc.step < MaxCycles
    /\ pc.v < MaxEdits
    /\ pc' = [pc EXCEPT !.v = @ + 1]

SetInput ==
    /\ Editing
    /\ \E id \in Live : \E input \in list_inputs(nodes[id]) : \E value \in 1..MaxInput :
           node_set_input(id, input, value)

EditAddNode ==
    /\ Editing
    /\ next_node_id < MaxNodeId
    /\ \E node \in ProcessNewNodes : add_node(node)

EditAddConnection ==
    /\ Editing
    /\ Len(connections) < MaxConnections
    /\ \E c \in Connections :
           validate_connection(nodes, c).tag = "Ok" /\ add_connection(c)

EditRemoveConnection == Editing /\ \E c \in Range(connections) : remove_connection(c)

EditRemoveNode == Editing /\ \E id \in Live : remove_node(id)

EditNext ==
    \/ ProcessNext
    \/ SetInput \/ EditAddNode \/ EditAddConnection \/ EditRemoveConnection \/ EditRemoveNode

EditSpec == ProcessInit /\ [][EditNext]_vars

\* ------------------------------------------------------ graph vocabulary

NonDelaying(ns, id) == id \in DOMAIN ns /\ ~delayed_processing(ns[id])

\* a comes at an earlier position of order than b
Precedes(order, a, b) ==
    \E i, j \in 1..Len(order) : i < j /\ order[i] = a /\ order[j] = b

\* Every connection with a non-delaying source has its source before its target.
RespectsDependencies(ns, conns, order) ==
    \A k \in 1..Len(conns) :
        NonDelaying(ns, conns[k].source_node)
            => Precedes(order, conns[k].source_node, conns[k].target_node)

IsPermutation(order, S) == Len(order) = Cardinality(S) /\ Range(order) = S

\* The orders of the live nodes that respect every non-delaying dependency.
DependencyOrders(ns, conns) == {o \in Perms(DOMAIN ns) : RespectsDependencies(ns, conns, o)}

Edges(conns) == {<<conns[k].source_node, conns[k].target_node>> : k \in 1..Len(conns)}

\* The pairs joined by a path of one or more edges of E (k rounds of extension).
RECURSIVE Paths(_, _, _)
Paths(E, R, k) ==
    IF k = 0 THEN R
    ELSE LET joined == {pe \in R \X E : pe[1][2] = pe[2][1]} IN
         Paths(E, R \cup {<<pe[1][1], pe[2][2]>> : pe \in joined}, k - 1)

HasCycle(E) == \E p \in Paths(E, E, Cardinality(E)) : p[1] = p[2]

\* A directed cycle of conns every node of which is non-delaying.
HasUndelayedCycle(ns, conns) ==
    HasCycle({e \in Edges(conns) : NonDelaying(ns, e[1]) /\ NonDelaying(ns, e[2])})

\* The (node, input) pairs that stored connections end in.
ConnectedInputs == {<<connections[k].target_node, connections[k].target_input>> : k \in 1..Len(connections)}

InputConnected(c) == <<c.target_node, c.target_input>> \in ConnectedInputs

\* Both nodes of c are live and declare the ports c names.
WellFormed(c) ==
    /\ c.source_node \in Live /\ c.target_node \in Live
    /\ c.source_output \in list_outputs(nodes[c.source_node])
    /\ c.target_input \in list_inputs(nodes[c.target_node])

\* c names existing nodes and ports and its target input has no source yet.
Addable(c) == WellFormed(c) /\ ~InputConnected(c)

\* ================================================================ claims

\* C1: after any sequence of add_node, add_connection, remove_connection and
\* remove_node calls, successful or failing, the cached processing order is a
\* permutation of exactly the live node ids: each once, none removed.
OrderIsPermutationOfLiveNodes == IsPermutation(processing_order, Live)

\* C1 witness: a node was removed and two nodes with a connection are left.
OrderAfterRemoval ==
    /\ result.op = "remove_node" /\ result.tag = "Ok"
    /\ Cardinality(Live) = 2 /\ Len(connections) >= 1
    /\ IsPermutation(processing_order, Live)

\* C2: for every stored connection with a non-delaying source the source comes
\* strictly before the target in the cached order, and when the dependencies
\* admit a single order, the cached order is that order.
OrderRespectsDependencies ==
    /\ RespectsDependencies(nodes, connections, processing_order)
    /\ LET orders == DependencyOrders(nodes, connections) IN
       Cardinality(orders) = 1 => processing_order \in orders

\* C2 witness: three nodes whose dependencies leave one order, which ends in a
\* delaying node fed by a non-delaying one.
SingleOrderCached ==
    /\ Cardinality(Live) = 3
    /\ DependencyOrders(nodes, connections) = {processing_order}
    /\ \E k \in 1..Len(connections) :
           /\ NonDelaying(nodes, connections[k].source_node)
           /\ ~NonDelaying(nodes, connections[k].target_node)

\* C3: add_connection of a valid connection into a free input that would close
\* a cycle of non-delaying nodes only (a self-loop included) returns
\* CycleWithoutDelay and leaves the connection list and the cached order as
\* they were.
UndelayedCycleRejected ==
    [][(/\ result'.op = "add_connection"
        /\ Addable(result'.arg)
        /\ HasUndelayedCycle(nodes, Append(connections, result'.arg)))
       => (/\ result'.tag = "Err"
           /\ result'.val = CycleWithoutDelay
           /\ connections' = connections
           /\ processing_order' = processing_order)]_vars

\* C3 witness: the rejected connection would have closed a cycle through three
\* nodes (neither a self-loop nor a two-node cycle).
ThreeCycleRejected ==
    /\ result.op = "add_connection" /\ result.tag = "Err"
    /\ result.val = CycleWithoutDelay
    /\ Len(connections) = 2
    /\ HasUndelayedCycle(nodes, Append(connections, result.arg))
    /\ ~HasUndelayedCycle(nodes, <<connections[1], result.arg>>)
    /\ ~HasUndelayedCycle(nodes, <<connections[2], result.arg>>)

\* C4: add_connection of a valid connection into a free input returns Ok and
\* stores the connection whenever every cycle of the resulting connections has
\* a delaying node, and CycleWithoutDelay is returned only when a cycle of
\* non-delaying nodes would exist.
LegalFeedbackAccepted ==
    [][result'.op = "add_connection" =>
        /\ (Addable(result'.arg) /\ ~HasUndelayedCycle(nodes, Append(connections, result'.arg)))
               => (/\ result'.tag = "Ok"
                   /\ result'.val = result'.arg
                   /\ connections' = Append(connections, result'.arg))
        /\ (result'.tag = "Err" /\ result'.val = CycleWithoutDelay)
               => HasUndelayedCycle(nodes, Append(connections, result'.arg))]_vars

\* C4 witness: the accepted connection closed a cycle, through a delaying node.
FeedbackLoopStored ==
    /\ result.op = "add_connection" /\ result.tag = "Ok"
    /\ Len(connections) >= 2
    /\ connections[Len(connections)] = result.arg
    /\ HasCycle(Edges(connections))
    /\ ~HasCycle(Edges(Pop(connections)))

\* C8 as stated: add_connection into an input that a stored connection already
\* ends in fails with InputAlreadyConnected(target_node, target_input),
\* whatever source node and source output the new connection names.
TakenInputAlwaysReported ==
    [][(result'.op = "add_connection" /\ InputConnected(result'.arg))
       => (/\ result'.tag = "Err"
           /\ result'.val = InputAlreadyConnected(result'.arg.target_node, result'.arg.target_input))]_vars

\* C8 amended: add_connection into an input that a stored connection already
\* ends in fails with InputAlreadyConnected(target_node, target_input) for
\* every source that passes validation (a live source node and a declared
\* source output), whichever of these the new connection names.
TakenInputReportedForValidSource ==
    [][(/\ result'.op = "add_connection"
        /\ InputConnected(result'.arg)
        /\ result'.arg.source_node \in Live
        /\ result'.arg.source_output \in list_outputs(nodes[result'.arg.source_node]))
       => (/\ result'.tag = "Err"
           /\ result'.val = InputAlreadyConnected(result'.arg.target_node, result'.arg.target_input))]_vars

\* C8 witness: the rejected connection names another source than the stored one.
TakenInputOtherSource ==
    /\ result.op = "add_connection" /\ result.tag = "Err"
    /\ result.val.error = "InputAlreadyConnected"
    /\ result.arg \notin Range(connections)
    /\ InputConnected(result.arg)

\* C9: a failing add_connection (any of its errors), remove_connection or
\* remove_node leaves the node map with all node values, the connection list,
\* the cached order and the next-id counter as they were before the call.
FailingMutationChangesNothing ==
    [][(result'.tag = "Err" /\ result'.op \in {"add_connection", "remove_connection", "remove_node"})
       => (/\ nodes' = nodes
           /\ connections' = connections
           /\ processing_order' = processing_order
           /\ next_node_id' = next_node_id)]_vars

\* C9 witness: the speculative insertion was reverted in a graph that stores
\* connections.
CycleRejectedWithStoredConnections ==
    /\ result.op = "add_connection" /\ result.tag = "Err"
    /\ result.val = CycleWithoutDelay
    /\ Len(connections) >= 1

\* The connections of conns that have id at neither end.
NotTouching(conns, id) == SelectSeq(conns, LAMBDA c : c.source_node # id /\ c.target_node # id)

\* C10: remove_node(id) of a live node removes the node, removes exactly the
\* connections that have id as source or target, removes id from the cached
\* order and returns the node with its values; a second remove_node(id) fails
\* with NodeNotExists(id).
RemoveNodeRemovesItsConnections ==
    [][result'.op = "remove_node" =>
        LET id == result'.arg IN
        /\ id \in Live =>
               /\ result'.tag = "Ok"
               /\ result'.val = nodes[id]
               /\ DOMAIN nodes' = Live \ {id}
               /\ \A n \in Live \ {id} : nodes'[n] = nodes[n]
               /\ connections' = NotTouching(connections, id)
               /\ id \notin Range(processing_order')
        /\ (result.op = "remove_node" /\ result.tag = "Ok" /\ result.arg = id) =>
               /\ result'.tag = "Err"
               /\ result'.val = NodeNotExists(id)]_vars

\* C10 witness: the second removal of a node failed, in a graph that still
\* stores a connection between the other nodes.
RemovedTwice ==
    /\ result.op = "remove_node" /\ result.tag = "Err"
    /\ result.arg < next_node_id
    /\ Len(connections) >= 1

\* C5: during one process() cycle every node that is the target of a connection
\* with a delaying source receives into that input the output the source held
\* before the cycle (before the source latched), whatever the target and the
\* cached order.
DelayedSourceReadBeforeLatch ==
    [][result'.op = "process" =>
        \A k \in 1..Len(connections) :
            LET c == connections[k] IN
            delayed_processing(nodes[c.source_node])
                => InputValue(nodes'[c.target_node], c.target_input)
                       = get_output(nodes[c.source_node], c.source_output)]_vars

\* C6: in the chain d0 -> d1 -> d2 of delay nodes, all outputs 0 and v set once
\* on the input of d0, after k calls of process() the output of d_i is v if
\* k >= i + 1 and 0 if k <= i: each delay adds exactly one cycle of lag.
DelayChainLagsOneCyclePerNode ==
    (pc.test = "multi_delay_processing" /\ pc.step >= Len(Script) /\ result.tag = "Ok")
        => \A i \in 0..2 :
               get_output(nodes[i], 0) = IF Cycles >= i + 1 THEN pc.v ELSE 0

\* C7: in the accumulator (Variable 1 -> Addition input 0, Addition -> Delay,
\* Delay -> Addition input 1) the cached order is [variable, addition, delay]
\* and the Addition output is 0 before any cycle and n after the n-th
\* process() call.
AccumulatorCountsCycles ==
    (pc.test = "process" /\ pc.step >= Len(Script) /\ result.tag = "Ok")
        => /\ processing_order = <<0, 1, 2>>
           /\ get_output(nodes[1], 0) = Cycles

\* C7 witness: the third cycle of the accumulator test has run.
AccumulatorAfterThreeCycles ==
    /\ pc.test = "process" /\ Cycles = 3
    /\ get_output(nodes[1], 0) = 3

\* The orders calc_processing_order may return for a graph, one per order in
\* which the in-degree map may be iterated.
CachedOrders(ns, conns) ==
    {calc_processing_order(ns, conns, ready).val : ready \in ReadyQueues(ns, conns)}

\* c is stored: some stored connection equals it in all four fields.
Stored(c) ==
    \E k \in 1..Len(connections) :
        /\ connections[k].source_node = c.source_node
        /\ connections[k].source_output = c.source_output
        /\ connections[k].target_node = c.target_node
        /\ connections[k].target_input = c.target_input

\* C11: remove_connection(c) fails with ConnectionNotExists(c) and changes
\* nothing when no stored connection equals c in all four fields; otherwise it
\* removes that one connection, keeps every other connection, caches an order
\* computed for the remaining connections and returns c, and a second
\* remove_connection(c) then fails with ConnectionNotExists(c).
RemoveConnectionRemovesExactlyOne ==
    [][result'.op = "remove_connection" =>
        LET c == result'.arg IN
        /\ ~Stored(c) =>
               /\ result'.tag = "Err"
               /\ result'.val = ConnectionNotExists(c)
               /\ UNCHANGED graph
        /\ Stored(c) =>
               /\ result'.tag = "Ok"
               /\ result'.val = c
               /\ Len(connections') = Len(connections) - 1
               /\ Range(connections') = Range(connections) \ {c}
               /\ processing_order' \in CachedOrders(nodes, connections')
               /\ UNCHANGED <<nodes, next_node_id>>
        /\ (result.op = "remove_connection" /\ result.tag = "Ok" /\ result.arg = c) =>
               /\ result'.tag = "Err"
               /\ result'.val = ConnectionNotExists(c)]_vars

\* C11 witness: a connection into one input of an Addition node was removed
\* and the connection into its other input is still stored.
OtherInputStillConnected ==
    /\ result.op = "remove_connection" /\ result.tag = "Ok"
    /\ ~Stored(result.arg)
    /\ \E k \in 1..Len(connections) :
           /\ connections[k].target_node = result.arg.target_node
           /\ connections[k].target_input # result.arg.target_input

\* C12: the ids add_node returns start at 0 and grow by one with every call;
\* no other operation moves the counter, so a returned id is larger than every
\* id returned before, whether its node is still live or was removed.
NodeIdsNeverReused ==
    [][/\ result'.op = "add_node" =>
              /\ result'.tag = "Ok"
              /\ result'.val = next_node_id
              /\ next_node_id' = next_node_id + 1
              /\ \A id \in Live : id < result'.val
              /\ result.op = "new" => result'.val = 0
       /\ result'.op # "add_node" => next_node_id' = next_node_id]_vars

\* C12 witness: add_node returned 2 after node 0 or node 1 had been removed.
ThirdIdAfterRemoval ==
    /\ result.op = "add_node" /\ result.tag = "Ok" /\ result.val = 2
    /\ Live # {0, 1, 2}

\* C13: no two stored connections end in the same (target_node, target_input)
\* pair: every input has zero or one source.
EveryInputHasAtMostOneSource ==
    \A i, j \in 1..Len(connections) :
        (/\ connections[i].target_node = connections[j].target_node
         /\ connections[i].target_input = connections[j].target_input) => i = j

\* C13 witness: one source feeds both inputs of an Addition node.
BothInputsOfOneNodeConnected ==
    \E i, j \in 1..Len(connections) :
        /\ connections[i].target_node = connections[j].target_node
        /\ connections[i].target_input # connections[j].target_input
        /\ connections[i].source_node = connections[j].source_node

\* C14: between operations every stored connection is valid: its source and
\* target nodes are live, its source output is declared by the source and its
\* target input by the target.
EveryStoredConnectionValid == \A k \in 1..Len(connections) : WellFormed(connections[k])

\* C14 witness: an Addition node was removed and a connection between the two
\* other nodes is still stored.
ConnectionSurvivesNodeRemoval ==
    /\ result.op = "remove_node" /\ result.tag = "Ok"
    /\ result.val.kind = "Addition"
    /\ Len(connections) >= 1
    /\ WellFormed(connections[1])

\* C17: in the cached order every delaying node comes after every node that
\* does not delay.
DelayingNodesLast ==
    \A i, j \in 1..Len(processing_order) :
        (/\ processing_order[i] \in Live /\ processing_order[j] \in Live
         /\ delayed_processing(nodes[processing_order[i]])
         /\ ~delayed_processing(nodes[processing_order[j]])) => j < i

\* C17 witness: a delaying node with a smaller id than the non-delaying node it
\* feeds is cached after that node and after a third node.
DelaySourceCachedLast ==
    /\ Len(processing_order) = 3
    /\ \E k \in 1..Len(connections) :
           /\ connections[k].source_node = processing_order[3]
           /\ connections[k].source_node < connections[k].target_node
           /\ delayed_processing(nodes[connections[k].source_node])
           /\ ~delayed_processing(nodes[connections[k].target_node])

\* C18: no call of add_node, remove_connection or remove_node ends in the panic
\* of an unwrap(): the order recomputation returns Ok for every order in which
\* the in-degree map may be iterated, and every node id that
\* calc_processing_order and process() look up (the source and target of
\* every stored connection, every entry of the cached order) is live.
UncheckedRecomputationsSucceed ==
    /\ result.tag # "Panic"
    /\ \A ready \in ReadyQueues(nodes, connections) :
           LET st == SortState(nodes, connections, ready) IN
           /\ ~st.panic
           /\ Len(st.order) + Len(st.delayed) = Cardinality(Live)
    /\ \A k \in 1..Len(connections) :
           connections[k].source_node \in Live /\ connections[k].target_node \in Live
    /\ Range(processing_order) \subseteq Live

\* C18 witness: a connection was removed from a graph that keeps a feedback
\* loop through a delaying node, and the order was recomputed.
RecomputedWithFeedbackLoop ==
    /\ result.op = "remove_connection" /\ result.tag = "Ok"
    /\ HasCycle(Edges(connections))
    /\ IsPermutation(processing_order, Live)

\* The error add_connection(c) has to report: the first failing check in the
\* order source node, target node, source output, target input, input free,
\* no undelayed cycle (NoError when every check passes).
NoError == [error |-> "none", args |-> <<>>]

FirstFailingCheck(c) ==
    IF c.source_node \notin Live THEN NodeNotExists(c.source_node)
    ELSE IF c.target_node \notin Live THEN NodeNotExists(c.target_node)
    ELSE IF c.source_output \notin list_outputs(nodes[c.source_node])
        THEN OutputNotExists(c.source_node, c.source_output)
    ELSE IF c.target_input \notin list_inputs(nodes[c.target_node])
        THEN InputNotExists(c.target_node, c.target_input)
    ELSE IF InputConnected(c) THEN InputAlreadyConnected(c.target_node, c.target_input)
    ELSE IF HasUndelayedCycle(nodes, Append(connections, c)) THEN CycleWithoutDelay
    ELSE NoError

\* C19: add_connection reports the first failing check in the precedence
\* source node missing, target node missing, source output undeclared, target
\* input undeclared, target input already connected, undelayed cycle; it
\* returns Ok exactly when no check fails. A not-found error is reported even
\* when the named target input is already connected.
FirstFailingCheckReported ==
    [][result'.op = "add_connection" =>
        LET expected == FirstFailingCheck(result'.arg) IN
        IF expected = NoError THEN result'.tag = "Ok"
        ELSE result'.tag = "Err" /\ result'.val = expected]_vars

\* C19 witness: a connection from a missing node into an input that is already
\* connected was rejected with NodeNotExists(source).
MissingSourceIntoTakenInput ==
    /\ result.op = "add_connection" /\ result.tag = "Err"
    /\ result.val = NodeNotExists(result.arg.source_node)
    /\ result.arg.target_node \in Live
    /\ InputConnected(result.arg)

\* C20: the cached order is a function of the graph state: for the live nodes
\* and the stored connection list there is one order that the computation can
\* cache, whatever the order in which the in-degree map is iterated.
OrderDeterminedByGraph == Cardinality(CachedOrders(nodes, connections)) = 1

\* The stored connection that ends in input of node id, as a set (empty or one).
SourcesOf(id, input) ==
    {k \in 1..Len(connections) :
        connections[k].target_node = id /\ connections[k].target_input = input}

\* id is a Variable node that no connection feeds: it holds its value.
HeldVariable(id) ==
    /\ nodes[id].kind = "Variable"
    /\ SourcesOf(id, 0) = {}

\* C15: at the end of a process() call, for every connection whose source does
\* not delay, the input stored in the target equals the output the source has
\* at the end of that call; an Addition node fed by two Variables that hold a
\* and b outputs a + b after the call.
SameCyclePropagation ==
    [][result'.op = "process" =>
        /\ \A k \in 1..Len(connections) :
               LET c == connections[k] IN
               ~delayed_processing(nodes[c.source_node])
                   => InputValue(nodes'[c.target_node], c.target_input)
                          = get_output(nodes'[c.source_node], c.source_output)
        /\ \A id \in Live : \A i \in SourcesOf(id, 0) : \A j \in SourcesOf(id, 1) :
               LET a == connections[i].source_node
                   b == connections[j].source_node IN
               (nodes[id].kind = "Addition" /\ HeldVariable(a) /\ HeldVariable(b))
                   => get_output(nodes'[id], 0) = nodes[a].value + nodes[b].value]_vars

\* C15 witness: after the first process() call a value has passed through a
\* chain of three non-delaying nodes, the last an Addition node.
PropagatedThroughChain ==
    /\ result.op = "process" /\ pc.step = 1
    /\ \E i, j \in 1..Len(connections) :
           /\ connections[i].target_node = connections[j].source_node
           /\ connections[i].source_node # connections[j].target_node
           /\ connections[i].source_node > connections[j].target_node
           /\ \A id \in {connections[i].source_node, connections[i].target_node,
                         connections[j].target_node} : ~delayed_processing(nodes[id])
           /\ nodes[connections[j].target_node].kind = "Addition"
           /\ get_output(nodes[connections[j].target_node], 0) > 0

\* The position of a live node in the cached order.
Position(id) == CHOOSE i \in 1..Len(processing_order) : processing_order[i] = id

\* The calls one process() makes in the current graph, in the order made.
Calls == ProcessCalls(connections, processing_order, 1)

\* The index in Calls of the one process() call on node id.
ProcessCallOf(id) == CHOOSE k \in 1..Len(Calls) : Calls[k].call = "process" /\ Calls[k].node = id

\* C16: one process() call invokes process() of every live node exactly once,
\* in cached order; the inputs of a node are populated, once per connection
\* into it, immediately before its own process() and after the process() of
\* every node earlier in the order. So an input fed by a node earlier in the
\* order holds that node's new output, an input fed by a later node (or by the
\* node itself) holds the output that node had before the call, an input that
\* nothing feeds keeps its value, and every node computes on these inputs.
ProcessIsOnePassInCachedOrder ==
    [][result'.op = "process" =>
        /\ SelectSeq(Calls, LAMBDA x : x.call = "process")
               = [i \in 1..Len(processing_order) |->
                      [call |-> "process", node |-> processing_order[i], connection |-> 0]]
        /\ \A id \in Live :
               Cardinality({k \in 1..Len(Calls) : Calls[k].call = "process" /\ Calls[k].node = id}) = 1
        /\ \A k \in 1..Len(connections) :
               LET t == connections[k].target_node
                   sets == {x \in 1..Len(Calls) : Calls[x].call = "set_input" /\ Calls[x].connection = k} IN
               /\ Cardinality(sets) = 1
               /\ \A x \in sets :
                      /\ Calls[x].node = t
                      /\ x < ProcessCallOf(t)
                      /\ \A y \in x..(ProcessCallOf(t) - 1) : Calls[y].call = "set_input"
                      /\ \A n \in Live : Position(n) < Position(t) => ProcessCallOf(n) < x
        /\ \A k \in 1..Len(connections) :
               LET c == connections[k] IN
               InputValue(nodes'[c.target_node], c.target_input)
                   = IF Position(c.source_node) < Position(c.target_node)
                     THEN get_output(nodes'[c.source_node], c.source_output)
                     ELSE get_output(nodes[c.source_node], c.source_output)
        /\ \A id \in Live : \A input \in list_inputs(nodes[id]) :
               SourcesOf(id, input) = {}
                   => InputValue(nodes'[id], input) = InputValue(nodes[id], input)
        /\ \A id \in Live :
               /\ nodes[id].kind = "Addition"
                      => nodes'[id].sum = nodes'[id].summands[1] + nodes'[id].summands[2]
               /\ nodes[id].kind = "Delay" => nodes'[id].value[2] = nodes'[id].value[1]
        /\ DOMAIN nodes' = Live]_vars

\* C16 witness: a process() call changed the sum of an Addition node that is
\* fed by a node earlier in the order and by a delaying node later in the
\* order whose output differed from its input before the call.
ReadEarlierAndLaterSource ==
    /\ result.op = "process" /\ pc.step >= 2
    /\ \E i, j \in 1..Len(connections) :
           LET t == connections[i].target_node
               early == connections[i].source_node
               late == connections[j].source_node IN
           /\ connections[j].target_node = t
           /\ nodes[t].kind = "Addition"
           /\ Position(early) < Position(t) /\ Position(t) < Position(late)
           /\ nodes[late].kind = "Delay"
           /\ nodes[late].value[2] > nodes[t].summands[connections[j].target_input + 1]

\* Some stored connection leads from a delaying node to a delaying node.
DelayFeedsDelay ==
    \E k \in 1..Len(connections) :
        /\ nodes[connections[k].source_node].kind = "Delay"
        /\ nodes[connections[k].target_node].kind = "Delay"

\* The node values one process() call leaves when the cached order is order.
ValuesAfterProcess(order) == ProcessNodes(nodes, connections, order, 1)

\* C21: in a graph without a connection from a delaying node to a delaying
\* node, process() leaves the same input and output values in every node
\* whichever of the orders calc_processing_order can produce is cached.
ValuesIndependentOfTieBreaking ==
    (result.tag = "Ok" /\ ~DelayFeedsDelay) =>
        Cardinality({ValuesAfterProcess(order) : order \in CachedOrders(nodes, connections)}) = 1

\* C21 witness: a delaying node whose input was set to a value its output
\* does not hold yet feeds a non-delaying node, both are ready from the start
\* and either may leave the queue first; process() would change values.
TieBetweenLatchingDelayAndItsTarget ==
    /\ result.op = "set_input" /\ ~DelayFeedsDelay
    /\ Cardinality(ReadyQueues(nodes, connections)) >= 2
    /\ \E k \in 1..Len(connections) :
           LET c == connections[k] IN
           /\ nodes[c.source_node].kind = "Delay"
           /\ nodes[c.source_node].value[1] # nodes[c.source_node].value[2]
           /\ nodes[c.target_node].kind # "Delay"
           /\ \A ready \in ReadyQueues(nodes, connections) :
                  {c.source_node, c.target_node} \subseteq Range(ready)
    /\ ValuesAfterProcess(processing_order) # nodes

\* C22: when a sequence of add_connection calls on a fixed node set all
\* succeeded, the same connections added in any other order to the same nodes
\* all succeed as well and leave the same set of connections.
AcceptanceIndependentOfInsertionOrder ==
    (pc.step = 0 /\ result.tag = "Ok") =>
        \A seq \in Perms(Range(connections)) :
            LET added == AddAll(nodes, <<>>, seq, 1) IN
            /\ added.tag = "Ok"
            /\ Range(added.val) = Range(connections)

\* C22 witness: three connections were added, the last of which closed a
\* feedback loop through a delaying node; in other orders another connection
\* closes it.
LoopClosedLast ==
    /\ pc.step = 0 /\ result.op = "add_connection" /\ result.tag = "Ok"
    /\ Len(connections) = 3
    /\ HasCycle(Edges(connections))
    /\ \A k \in 1..3 : ~HasCycle(Edges(SelectSeq(connections, LAMBDA c : c # connections[k])))

\* C23: add_node, add_connection, remove_connection and remove_node leave the
\* values of every node that stays in the graph as they were, and process()
\* leaves every input that no stored connection ends in as it was: an input
\* whose connection was removed keeps the last value copied into it.
MutationsKeepNodeValues ==
    [][/\ result'.op \in {"add_node", "add_connection", "remove_connection", "remove_node"}
              => \A id \in DOMAIN nodes \cap DOMAIN nodes' : nodes'[id] = nodes[id]
       /\ result'.op = "process"
              => \A id \in Live : \A input \in list_inputs(nodes[id]) :
                     SourcesOf(id, input) = {}
                         => InputValue(nodes'[id], input) = InputValue(nodes[id], input)]_vars

\* C23 witness: after the one mutation and a later process() call, an input
\* that no connection ends in holds a value larger than set_input was ever
\* called with: it was copied through a connection that has been removed.
DisconnectedInputKeepsValue ==
    /\ result.op = "process" /\ pc.v = 1
    /\ \E id \in Live : \E input \in list_inputs(nodes[id]) :
           /\ nodes[id].kind # "Variable"
           /\ SourcesOf(id, input) = {}
           /\ InputValue(nodes[id], input) > MaxInput

\* The sort of the stored connections together with extra, for every order in
\* which the in-degree map may be iterated.
SortsOf(extra) ==
    {SortState(nodes, connections \o extra, ready) : ready \in ReadyQueues(nodes, connections \o extra)}

\* No counter went below zero, no node was queued twice, and at most one
\* entry per live node was dequeued.
SortsWithinBounds(extra) ==
    \A st \in SortsOf(extra) :
        LET dequeued == st.order \o st.delayed IN
        /\ ~st.underflow /\ ~st.panic
        /\ \A n \in Live : st.in_degree[n] >= 0
        /\ \A i, j \in 1..Len(dequeued) : dequeued[i] = dequeued[j] => i = j
        /\ st.queue = <<>>
        /\ st.pops = Len(dequeued)
        /\ st.pops <= Cardinality(Live)

\* C24: in calc_processing_order, run on any reachable graph and on the
\* speculative connection list of an add_connection that found an undelayed
\* cycle, no in-degree counter is decremented below zero and no node enters
\* the queue more than once, so the loop ends after dequeuing at most one
\* entry per live node.
SortLoopTerminates ==
    /\ SortsWithinBounds(<<>>)
    /\ (result.op = "add_connection" /\ result.tag = "Err" /\ result.val = CycleWithoutDelay)
           => SortsWithinBounds(<<result.arg>>)

\* C24 witness: an Addition node whose two inputs are fed by non-delaying
\* nodes is in the graph (its counter is decremented twice, it is queued
\* once), and a connection closing an undelayed cycle through it was rejected.
CounterDecrementedTwice ==
    /\ result.op = "add_connection" /\ result.tag = "Err" /\ result.val = CycleWithoutDelay
    /\ \E i, j \in 1..Len(connections) :
           /\ i # j
           /\ connections[i].target_node = connections[j].target_node
           /\ connections[i].target_node = result.arg.source_node
           /\ ~delayed_processing(nodes[connections[i].source_node])
           /\ ~delayed_processing(nodes[connections[j].source_node])

====
